---- MODULE Spec2Model ----
(***************************************************************************)
(* Model of covid19_inference/models.py: SIR_model_with_change_points.     *)
(*                                                                         *)
(* The function is modelled as a sequential state machine whose program    *)
(* counter pc walks through the phases of the function body.  Two calls    *)
(* are made in a row with the same argument objects, so that the in-place  *)
(* filling of priors_dic and of the change-point mappings by the first     *)
(* call is visible to the second.                                          *)
(*                                                                         *)
(* Numbers: every prior value is held in thousandths (0.4 is 400, 1/8 is   *)
(* 125, 8 is 8000), which makes the arithmetic of the lead-time check      *)
(* exact.  Dates are day numbers; None is the sentinel NoneVal.            *)
(* Identifiers: the source's λ, μ, σ are written lambda, mu, sigma.        *)
(***************************************************************************)
EXTENDS Integers, Sequences, FiniteSets, TLC

VARIABLES
    new_cases_len,          \* len(new_cases_obs) = new_cases_obs.shape[-1]
    change_points_list,     \* the caller's list of mappings (mutated in place)
    date_begin_simulation,  \* day number
    num_days_sim,
    diff_data_sim,
    priors_is_None,         \* the caller passed priors_dic = None
    caller_dic,             \* the caller's priors_dic object (unused if None)
    priors_dic,             \* the local name priors_dic
    pc,                     \* position in the function body
    declared,               \* variables registered in the pm.Model, in order
    i,                      \* index of the transient_begin loop
    date_before,
    lambda_t,               \* λ_t_list: the terms whose sum is λ_t
    new_cases_inferred_len, \* length of new_cases_inferred
    err,                    \* the error raised, or "none"
    returned,               \* a model was returned to the caller
    call,                   \* 1 or 2
    first,                  \* outcome of the first call
    supplied_priors,        \* priors_dic as supplied to the first call
    supplied_cps            \* change_points_list as supplied to the first call

vars == <<new_cases_len, change_points_list, date_begin_simulation, num_days_sim,
          diff_data_sim, priors_is_None, caller_dic, priors_dic, pc, declared, i,
          date_before, lambda_t, new_cases_inferred_len, err, returned, call,
          first, supplied_priors, supplied_cps>>

-----------------------------------------------------------------------------
(* Bounds *)

\* longest change-point list whose mappings carry optional and unknown keys
MaxCP == 2
\* longest change-point list whose mappings carry only dates
MaxDates == 3
\* latent rate levels are drawn from 1..MaxLam
MaxLam == 2
\* latent transition lengths are drawn from 1..MaxLen
MaxLen == 1
\* latent transition begins are drawn from 0..MaxBegin
MaxBegin == 6

-----------------------------------------------------------------------------
(* Values *)

NoneVal == -1

EmptyDict == [k \in {} |-> 0]

default_priors ==
    ("prior_beta_I_begin" :> 100000) @@
    ("prior_median_lambda_0" :> 400) @@
    ("prior_sigma_lambda_0" :> 500) @@
    ("prior_median_mu" :> 125) @@
    ("prior_sigma_mu" :> 200) @@
    ("prior_median_delay" :> 8000) @@
    ("prior_sigma_delay" :> 200) @@
    ("prior_beta_sigma_obs" :> 10000)

default_priors_change_points ==
    ("prior_median_lambda" :> default_priors["prior_median_lambda_0"]) @@
    ("prior_sigma_lambda" :> default_priors["prior_sigma_lambda_0"]) @@
    ("prior_sigma_date_begin_transient" :> 3000) @@
    ("prior_median_transient_len" :> 3000) @@
    ("prior_sigma_transient_len" :> 300) @@
    ("prior_mean_date_begin_transient" :> NoneVal)

\* the keys the docstring of the function names for a change point
DocumentedCPKeys ==
    {"prior_mean_date_begin_transient", "prior_median_lambda", "prior_sigma_lambda",
     "prior_sigma_begin_transient", "prior_median_transient_len",
     "prior_sigma_transient_len"}

-----------------------------------------------------------------------------
(* Key validation and defaulting, lines 52-66 *)

UnknownKeysWrongDict(dic, defaults) == {k \in DOMAIN dic : k \notin DOMAIN dic}

\* the keys of dic on which "prior_name not in defaults" raises
UnknownKeys(dic, defaults) == {k \in DOMAIN dic : k \notin DOMAIN defaults}

FillDefaultsOverwrite(dic, defaults) ==
    [k \in DOMAIN dic \cup DOMAIN defaults |->
        IF k \in DOMAIN defaults THEN defaults[k] ELSE dic[k]]

\* dic after "if prior_name not in dic: dic[prior_name] = value" for every default
FillDefaults(dic, defaults) ==
    [k \in DOMAIN dic \cup DOMAIN defaults |->
        IF k \in DOMAIN dic THEN dic[k] ELSE defaults[k]]

-----------------------------------------------------------------------------
(* Horizon checks, lines 68-71 *)

\* prior_median_delay + 3*prior_median_delay*prior_sigma_delay, in millionths
DelayBound(priors) ==
    priors["prior_median_delay"] * 1000
      + 3 * priors["prior_median_delay"] * priors["prior_sigma_delay"]

LeadTimeTooSmallInclusive(diff, priors) == diff * 1000000 <= DelayBound(priors)

LeadTimeTooSmall(diff, priors) == diff * 1000000 < DelayBound(priors)

HorizonTooShortNoOffset(days, len_obs, diff) == days < len_obs

HorizonTooShort(days, len_obs, diff) == days < len_obs + diff

-----------------------------------------------------------------------------
(* Declared variables, lines 73-105 and 121-154 *)

Var(name, dist, a, b) == [name |-> name, dist |-> dist, a |-> a, b |-> b]

\* I_begin and λ_0 .. λ_n; a Lognormal is recorded with its median (mu = log a)
RateVarsBaselineOnly(cps, priors) ==
    << Var("I_begin", "HalfCauchy", priors["prior_beta_I_begin"], 0),
       Var("lambda_0", "Lognormal", priors["prior_median_lambda_0"],
           priors["prior_sigma_lambda_0"]) >>

RateVars(cps, priors) ==
    << Var("I_begin", "HalfCauchy", priors["prior_beta_I_begin"], 0),
       Var("lambda_0", "Lognormal", priors["prior_median_lambda_0"],
           priors["prior_sigma_lambda_0"]) >>
    \o [j \in 1..Len(cps) |->
          Var("lambda_" \o ToString(j), "Lognormal",
              cps[j]["prior_median_lambda"], cps[j]["prior_sigma_lambda"])]

OutOfOrderInclusive(before, date) == before # NoneVal /\ before >= date

\* date_before is not None and date_before > date_begin_transient
OutOfOrder(before, date) == before # NoneVal /\ before > date

\* transient_begin_k for the change point at list position k+1
TransientBeginVar(k, cp, begin_sim) ==
    Var("transient_begin_" \o ToString(k), "Normal",
        cp["prior_mean_date_begin_transient"] - begin_sim,
        cp["prior_sigma_date_begin_transient"])

TransientLenVarsMisnamed(cps) ==
    [j \in 1..Len(cps) |->
        Var("transient_begin_" \o ToString(j - 1), "Lognormal",
            cps[j]["prior_median_transient_len"], cps[j]["prior_sigma_transient_len"])]

TransientLenVars(cps) ==
    [j \in 1..Len(cps) |->
        Var("transient_len_" \o ToString(j - 1), "Lognormal",
            cps[j]["prior_median_transient_len"], cps[j]["prior_sigma_transient_len"])]

\* λ_t_list: one term per change point, step_k * (λ_{k+1} - λ_step_before),
\* where λ_step_before is λ_list[0] throughout
RateTerms(n) == [j \in 1..n |-> [step |-> j - 1, plus |-> j, minus |-> 0]]

\* _smooth_step_function idealised as λ_begin before the window and λ_end after
\* it, halfway in between; the value is doubled to stay in the integers
SmoothStep2(l_begin, l_end, t_begin, t_end, t) ==
    IF t < t_begin THEN 2 * l_begin
    ELSE IF t > t_end THEN 2 * l_end
    ELSE l_begin + l_end

RECURSIVE RateAt2(_, _, _)
\* twice the value of sum(λ_t_list) on day t under the latent values val
RateAt2(terms, val, t) ==
    IF terms = <<>> THEN 0
    ELSE LET term == Head(terms)
             k == term.step + 1
         IN  SmoothStep2(0, 1, val.begin[k], val.begin[k] + val.len[k], t)
                 * (val.lam[term.plus] - val.lam[term.minus])
             + RateAt2(Tail(terms), val, t)

\* number of days sum(λ_t_list) spans: the sum of no terms is the scalar 0
RateLen(terms, t_total) == IF terms = <<>> THEN 0 ELSE t_total

\* _delay_cases returns len_new_cases_obs entries
DelayCasesLen(len_new_I_t, len_new_cases_obs) == len_new_cases_obs

Min(a, b) == IF a < b THEN a ELSE b

\* length of x[:k] for a sequence of length n, k >= 0
SliceLen(n, k) == IF n < 0 THEN 0 ELSE Min(n, k)

ObservationVars(priors, inferred_len, num_days_data) ==
    << Var("mu", "Lognormal", priors["prior_median_mu"], priors["prior_sigma_mu"]),
       Var("delay", "Lognormal", priors["prior_median_delay"],
           priors["prior_sigma_delay"]),
       Var("sigma_obs", "HalfCauchy", priors["prior_beta_sigma_obs"], 0),
       Var("obs", "StudentT", SliceLen(inferred_len, num_days_data), num_days_data),
       Var("lambda_t", "Deterministic", 0, 0),
       Var("new_cases", "Deterministic", inferred_len, 0) >>

Names(vs) == {vs[k].name : k \in 1..Len(vs)}

-----------------------------------------------------------------------------
(* Inputs *)

SeqUpTo(S, n) == UNION {[1..m -> S] : m \in 0..n}

DateKey(d) == "prior_mean_date_begin_transient" :> d

PriorDicts ==
    {a @@ b @@ c :
        a \in {EmptyDict, "prior_median_delay" :> 5000},
        b \in {EmptyDict, "prior_median_lambda_0" :> 300},
        c \in {EmptyDict, "not_a_real_prior" :> 1000}}

KeyedCPs ==
    {a @@ b :
        a \in {EmptyDict, DateKey(10)},
        b \in {EmptyDict, "prior_sigma_begin_transient" :> 3000,
               "prior_median_lambda" :> 200}}

DatedCPs == {DateKey(d) : d \in {10, 15, 20}}

ChangePointLists == SeqUpTo(KeyedCPs, MaxCP) \cup SeqUpTo(DatedCPs, MaxDates)

Horizons == {<<9, 2>>, <<10, 2>>, <<15, 2>>}

Offsets == {0, 8, 13}

NoOutcome == [err |-> "none", names |-> {}, count |-> 0, returned |-> FALSE]

Init ==
    /\ change_points_list \in ChangePointLists
    /\ supplied_cps = change_points_list
    /\ priors_is_None \in BOOLEAN
    /\ caller_dic \in PriorDicts
    /\ priors_is_None => caller_dic = EmptyDict
    /\ supplied_priors = caller_dic
    /\ \E h \in Horizons : num_days_sim = h[1] /\ new_cases_len = h[2]
    /\ diff_data_sim \in Offsets
    /\ date_begin_simulation = 5
    /\ priors_dic = EmptyDict
    /\ pc = "enter"
    /\ declared = <<>>
    /\ i = 0
    /\ date_before = NoneVal
    /\ lambda_t = <<>>
    /\ new_cases_inferred_len = 0
    /\ err = "none"
    /\ returned = FALSE
    /\ call = 1
    /\ first = NoOutcome

args == <<new_cases_len, date_begin_simulation, num_days_sim, diff_data_sim,
          priors_is_None, supplied_priors, supplied_cps, call, first>>

Raise(kind) == pc' = "raised" /\ err' = kind

-----------------------------------------------------------------------------
(* The function body *)

\* lines 34-35
Enter ==
    /\ pc = "enter"
    /\ priors_dic' = IF priors_is_None THEN EmptyDict ELSE caller_dic
    /\ pc' = "priors"
    /\ UNCHANGED <<args, change_points_list, caller_dic, declared, i, date_before,
                   lambda_t, new_cases_inferred_len, err, returned>>

\* lines 52-57
ValidatePriors ==
    /\ pc = "priors"
    /\ IF UnknownKeys(priors_dic, default_priors) # {}
       THEN /\ Raise("UnknownOption")
            /\ UNCHANGED <<priors_dic, caller_dic>>
       ELSE /\ priors_dic' = FillDefaults(priors_dic, default_priors)
            /\ caller_dic' = IF priors_is_None THEN caller_dic ELSE priors_dic'
            /\ pc' = "change_points"
            /\ err' = err
    /\ UNCHANGED <<args, change_points_list, declared, i, date_before, lambda_t,
                   new_cases_inferred_len, returned>>

\* lines 59-66
ValidateChangePoints ==
    /\ pc = "change_points"
    /\ IF \E j \in 1..Len(change_points_list) :
             UnknownKeys(change_points_list[j], default_priors_change_points) # {}
       THEN /\ Raise("UnknownOption")
            /\ UNCHANGED change_points_list
       ELSE /\ change_points_list' =
                 [j \in 1..Len(change_points_list) |->
                    FillDefaults(change_points_list[j], default_priors_change_points)]
            /\ pc' = "lead_time"
            /\ err' = err
    /\ UNCHANGED <<args, caller_dic, priors_dic, declared, i, date_before, lambda_t,
                   new_cases_inferred_len, returned>>

\* lines 68-69
CheckLeadTime ==
    /\ pc = "lead_time"
    /\ IF LeadTimeTooSmall(diff_data_sim, priors_dic)
       THEN Raise("InsufficientLeadTime")
       ELSE pc' = "horizon" /\ err' = err
    /\ UNCHANGED <<args, change_points_list, caller_dic, priors_dic, declared, i,
                   date_before, lambda_t, new_cases_inferred_len, returned>>

\* lines 70-71
CheckHorizon ==
    /\ pc = "horizon"
    /\ IF HorizonTooShort(num_days_sim, new_cases_len, diff_data_sim)
       THEN Raise("HorizonTooShort")
       ELSE pc' = "rates" /\ err' = err
    /\ UNCHANGED <<args, change_points_list, caller_dic, priors_dic, declared, i,
                   date_before, lambda_t, new_cases_inferred_len, returned>>

\* lines 73-87
DeclareRates ==
    /\ pc = "rates"
    /\ declared' = RateVars(change_points_list, priors_dic)
    /\ i' = 0
    /\ date_before' = NoneVal
    /\ pc' = "transient_begin"
    /\ UNCHANGED <<args, change_points_list, caller_dic, priors_dic, lambda_t,
                   new_cases_inferred_len, err, returned>>

\* lines 88-96, one iteration; the loop is left when the list is exhausted
DeclareTransientBegin ==
    /\ pc = "transient_begin"
    /\ IF i >= Len(change_points_list)
       THEN /\ pc' = "transient_len"
            /\ UNCHANGED <<declared, i, date_before, err>>
       ELSE LET change_point == change_points_list[i + 1]
                date_begin_transient == change_point["prior_mean_date_begin_transient"]
            IN  IF date_begin_transient = NoneVal
                THEN \* None compared with or subtracted from a datetime
                     /\ Raise("TypeError")
                     /\ UNCHANGED <<declared, i, date_before>>
                ELSE IF OutOfOrder(date_before, date_begin_transient)
                THEN /\ Raise("ChangePointOrdering")
                     /\ UNCHANGED <<declared, i, date_before>>
                ELSE /\ declared' = Append(declared,
                            TransientBeginVar(i, change_point, date_begin_simulation))
                     /\ date_before' = date_begin_transient
                     /\ i' = i + 1
                     /\ pc' = pc
                     /\ err' = err
    /\ UNCHANGED <<args, change_points_list, caller_dic, priors_dic, lambda_t,
                   new_cases_inferred_len, returned>>

\* lines 99-105
DeclareTransientLen ==
    /\ pc = "transient_len"
    /\ declared' = declared \o TransientLenVars(change_points_list)
    /\ pc' = "build_rate"
    /\ UNCHANGED <<args, change_points_list, caller_dic, priors_dic, i, date_before,
                   lambda_t, new_cases_inferred_len, err, returned>>

\* lines 108-118
BuildRate ==
    /\ pc = "build_rate"
    /\ lambda_t' = RateTerms(Len(change_points_list))
    /\ pc' = "observation"
    /\ UNCHANGED <<args, change_points_list, caller_dic, priors_dic, declared, i,
                   date_before, new_cases_inferred_len, err, returned>>

\* lines 120-154
DeclareObservation ==
    /\ pc = "observation"
    /\ new_cases_inferred_len' = DelayCasesLen(num_days_sim, num_days_sim - diff_data_sim)
    /\ declared' = declared \o
                     ObservationVars(priors_dic, new_cases_inferred_len', new_cases_len)
    /\ pc' = "return"
    /\ UNCHANGED <<args, change_points_list, caller_dic, priors_dic, i, date_before,
                   lambda_t, err, returned>>

\* line 155
Return ==
    /\ pc = "return"
    /\ returned' = TRUE
    /\ pc' = "returned"
    /\ UNCHANGED <<args, change_points_list, caller_dic, priors_dic, declared, i,
                   date_before, lambda_t, new_cases_inferred_len, err>>

Finished == pc \in {"returned", "raised"}

Outcome == [err |-> err, names |-> Names(declared), count |-> Len(declared),
            returned |-> returned]

\* the caller calls the function again with the same argument objects
CallAgain ==
    /\ Finished
    /\ call = 1
    /\ call' = 2
    /\ first' = Outcome
    /\ pc' = "enter"
    /\ priors_dic' = EmptyDict
    /\ declared' = <<>>
    /\ i' = 0
    /\ date_before' = NoneVal
    /\ lambda_t' = <<>>
    /\ new_cases_inferred_len' = 0
    /\ err' = "none"
    /\ returned' = FALSE
    /\ UNCHANGED <<new_cases_len, date_begin_simulation, num_days_sim, diff_data_sim,
                   priors_is_None, supplied_priors, supplied_cps, change_points_list,
                   caller_dic>>

Next ==
    \/ Enter
    \/ ValidatePriors
    \/ ValidateChangePoints
    \/ CheckLeadTime
    \/ CheckHorizon
    \/ DeclareRates
    \/ DeclareTransientBegin
    \/ DeclareTransientLen
    \/ BuildRate
    \/ DeclareObservation
    \/ Return
    \/ CallAgain

Spec == Init /\ [][Next]_vars

-----------------------------------------------------------------------------
(* Vocabulary of the properties *)

\* the eight recognized prior names
PriorNames ==
    {"prior_beta_I_begin", "prior_median_lambda_0", "prior_sigma_lambda_0",
     "prior_median_mu", "prior_sigma_mu", "prior_median_delay", "prior_sigma_delay",
     "prior_beta_sigma_obs"}

\* the six recognized change-point names
ChangePointNames ==
    {"prior_median_lambda", "prior_sigma_lambda", "prior_sigma_date_begin_transient",
     "prior_median_transient_len", "prior_sigma_transient_len",
     "prior_mean_date_begin_transient"}

\* the fixed defaults as the docstring and the specification list them
StatedPriorDefault(k) ==
    CASE k = "prior_beta_I_begin" -> 100000
      [] k = "prior_median_lambda_0" -> 400
      [] k = "prior_sigma_lambda_0" -> 500
      [] k = "prior_median_mu" -> 125
      [] k = "prior_sigma_mu" -> 200
      [] k = "prior_median_delay" -> 8000
      [] k = "prior_sigma_delay" -> 200
      [] k = "prior_beta_sigma_obs" -> 10000

StatedChangePointDefault(k) ==
    CASE k = "prior_median_lambda" -> 400
      [] k = "prior_sigma_lambda" -> 500
      [] k = "prior_sigma_date_begin_transient" -> 3000
      [] k = "prior_median_transient_len" -> 3000
      [] k = "prior_sigma_transient_len" -> 300

DateName == "prior_mean_date_begin_transient"

NumCP == Len(supplied_cps)

PriorKeysRecognized == DOMAIN supplied_priors \subseteq PriorNames

ChangePointKeysRecognized ==
    \A j \in 1..NumCP : DOMAIN supplied_cps[j] \subseteq ChangePointNames

KeysRecognized == PriorKeysRecognized /\ ChangePointKeysRecognized

\* the value a prior has for this build: the caller's, or the stated default
EffectivePrior(k) ==
    IF k \in DOMAIN supplied_priors THEN supplied_priors[k] ELSE StatedPriorDefault(k)

\* prior_median_delay + 3 * prior_median_delay * prior_sigma_delay, in millionths
StatedDelayBound ==
    EffectivePrior("prior_median_delay") * 1000
      + 3 * EffectivePrior("prior_median_delay") * EffectivePrior("prior_sigma_delay")

DiffMillionths == diff_data_sim * 1000000

HorizonChecksPass ==
    /\ DiffMillionths >= StatedDelayBound
    /\ num_days_sim >= new_cases_len + diff_data_sim

\* the build has gone past key validation
PastKeyValidation ==
    \/ pc \in {"lead_time", "horizon", "rates", "transient_begin", "transient_len",
               "build_rate", "observation", "return", "returned"}
    \/ pc = "raised" /\ err \in {"InsufficientLeadTime", "HorizonTooShort",
                                 "ChangePointOrdering", "TypeError"}

\* the build has gone past the lead-time check
PastLeadTimeCheck ==
    \/ pc \in {"horizon", "rates", "transient_begin", "transient_len",
               "build_rate", "observation", "return", "returned"}
    \/ pc = "raised" /\ err \in {"HorizonTooShort", "ChangePointOrdering", "TypeError"}

\* the build has gone past both horizon checks
PastHorizonCheck ==
    \/ pc \in {"rates", "transient_begin", "transient_len",
               "build_rate", "observation", "return", "returned"}
    \/ pc = "raised" /\ err \in {"ChangePointOrdering", "TypeError"}

FatalErrors ==
    {"UnknownOption", "InsufficientLeadTime", "HorizonTooShort", "ChangePointOrdering"}

-----------------------------------------------------------------------------
(* C1 *)

HasUnknownKey == ~KeysRecognized

\* C1: if priors_dic or any change-point mapping has an unrecognized key, the
\* build never gets past key validation, never declares a variable, and ends
\* with the unknown-option error whatever the other arguments are.
C1_UnknownKeyAlwaysRaises ==
    HasUnknownKey =>
        /\ declared = <<>>
        /\ ~PastKeyValidation
        /\ ~returned
        /\ Finished => err = "UnknownOption"

\* the unknown key sits in the second mapping only; priors and first mapping are fine
C1_Witness ==
    /\ pc = "raised"
    /\ err = "UnknownOption"
    /\ PriorKeysRecognized
    /\ NumCP = 2
    /\ DOMAIN supplied_cps[1] \subseteq ChangePointNames
    /\ ~(DOMAIN supplied_cps[2] \subseteq ChangePointNames)
    /\ declared = <<>>

-----------------------------------------------------------------------------
(* C2 *)

AllDated == \A j \in 1..NumCP : DateName \in DOMAIN supplied_cps[j]

SuppliedDate(j) == supplied_cps[j][DateName]

\* some entry's date is earlier than the date of an entry that precedes it
SomeEarlierThanPredecessor ==
    \E a, b \in 1..NumCP : a < b /\ SuppliedDate(b) < SuppliedDate(a)

\* C2: with recognized keys, passing horizon checks and a date in every entry,
\* the build ends with the ordering error whenever some date is earlier than
\* that of any preceding entry, never raises it when the dates are
\* non-decreasing by position, and keeps the list in the caller's order.
C2_OrderingError ==
    (KeysRecognized /\ HorizonChecksPass /\ AllDated) =>
        /\ (Finished /\ SomeEarlierThanPredecessor) => err = "ChangePointOrdering"
        /\ ~SomeEarlierThanPredecessor => err # "ChangePointOrdering"
        /\ Len(change_points_list) = NumCP
        /\ \A j \in 1..NumCP : change_points_list[j][DateName] = SuppliedDate(j)

\* the third date is earlier than the first but not earlier than its neighbour
C2_Witness ==
    /\ pc = "raised"
    /\ err = "ChangePointOrdering"
    /\ KeysRecognized /\ HorizonChecksPass /\ AllDated
    /\ NumCP = 3
    /\ SuppliedDate(3) < SuppliedDate(1)
    /\ SuppliedDate(3) >= SuppliedDate(2)

-----------------------------------------------------------------------------
(* C3 *)

\* C3 as stated: the build gets past the lead-time check only if diff_data_sim
\* strictly exceeds prior_median_delay + 3*prior_median_delay*prior_sigma_delay.
C3_StrictlyExceeds ==
    KeysRecognized =>
        /\ PastLeadTimeCheck => DiffMillionths > StatedDelayBound
        /\ (Finished /\ ~(DiffMillionths > StatedDelayBound))
              => err = "InsufficientLeadTime"

\* C3 amended: the insufficient-lead-time error is raised exactly when
\* diff_data_sim is below the bound; a build past the check has diff_data_sim
\* at least the bound; diff_data_sim = 0 with the default delay prior raises.
C3_AtLeastBound ==
    KeysRecognized =>
        /\ PastLeadTimeCheck => DiffMillionths >= StatedDelayBound
        /\ (Finished /\ DiffMillionths < StatedDelayBound)
              => err = "InsufficientLeadTime"
        /\ err = "InsufficientLeadTime" => DiffMillionths < StatedDelayBound
        /\ (Finished /\ diff_data_sim = 0
              /\ "prior_median_delay" \notin DOMAIN supplied_priors
              /\ "prior_sigma_delay" \notin DOMAIN supplied_priors)
              => err = "InsufficientLeadTime"

\* a build with diff_data_sim equal to the bound runs to the end
C3_Witness ==
    /\ returned
    /\ KeysRecognized
    /\ DiffMillionths = StatedDelayBound

-----------------------------------------------------------------------------
(* C4, C5 *)

\* latent values: rate levels, transition begins and transition lengths
Valuations(n) ==
    [lam : [0..n -> 1..MaxLam], begin : [1..n -> 0..MaxBegin], len : [1..n -> 1..MaxLen]]

\* the transition windows follow each other without overlapping
NonOverlapping(val, n) ==
    \A k \in 1..(n - 1) : val.begin[k] + val.len[k] < val.begin[k + 1]

\* the days after the window of change point k and before that of change point k+1
Plateau(val, n, k) ==
    {t \in 0..(num_days_sim - 1) :
        /\ k > 0 => t > val.begin[k] + val.len[k]
        /\ k < n => t < val.begin[k + 1]}

\* C4: with no change points a successful build feeds the SIR recursion a rate of
\* num_days_sim entries, each equal to the baseline λ_0.
C4_ConstantBaseline ==
    (pc \in {"observation", "return", "returned"} /\ NumCP = 0) =>
        /\ RateLen(lambda_t, num_days_sim) = num_days_sim
        /\ \A val \in Valuations(0) : \A t \in 0..(num_days_sim - 1) :
              RateAt2(lambda_t, val, t) = 2 * val.lam[0]

\* C5: with n >= 1 non-overlapping change points the rate equals the segment
\* level λ_k on the plateau after change point k and before change point k+1.
C5_PlateauLevels ==
    (pc \in {"observation", "return", "returned"} /\ NumCP >= 1) =>
        \A val \in Valuations(NumCP) :
            NonOverlapping(val, NumCP) =>
                \A k \in 0..NumCP : \A t \in Plateau(val, NumCP, k) :
                    RateAt2(lambda_t, val, t) = 2 * val.lam[k]

-----------------------------------------------------------------------------
(* C6 *)

\* C6 as stated: whenever one of the four fatal errors is raised, no variable
\* has been declared and no model is returned.
C6_NothingDeclaredOnError ==
    err \in FatalErrors => (declared = <<>> /\ ~returned)

\* C6 amended: the unknown-option, lead-time and horizon errors are raised with
\* no variable declared; the ordering error is raised after I_begin, λ_0..λ_n
\* and the transient_begin variables of the earlier change points have been
\* declared, and before the likelihood obs is; none of the four returns a model.
C6_DeclaredOnError ==
    /\ err \in {"UnknownOption", "InsufficientLeadTime", "HorizonTooShort"}
          => declared = <<>>
    /\ err = "ChangePointOrdering" =>
          /\ i >= 1
          /\ Len(declared) = 2 + NumCP + i
          /\ Names(declared) =
                {"I_begin"} \cup {"lambda_" \o ToString(j) : j \in 0..NumCP}
                   \cup {"transient_begin_" \o ToString(j) : j \in 0..(i - 1)}
    /\ err \in FatalErrors => ~returned

\* the ordering error at the third of three change points
C6_Witness ==
    /\ pc = "raised"
    /\ err = "ChangePointOrdering"
    /\ NumCP = 3
    /\ Len(declared) = 7

-----------------------------------------------------------------------------
(* C7 *)

\* C7: a change-point mapping that uses only the keys the docstring names never
\* causes the unknown-option error, and a supplied prior_sigma_begin_transient
\* is the sigma of the transient_begin prior.
C7_DocumentedKeysAccepted ==
    (PriorKeysRecognized
       /\ \A j \in 1..NumCP : DOMAIN supplied_cps[j] \subseteq DocumentedCPKeys) =>
        /\ err # "UnknownOption"
        /\ returned =>
              \A j \in 1..NumCP :
                 "prior_sigma_begin_transient" \in DOMAIN supplied_cps[j] =>
                    \E k \in 1..Len(declared) :
                       /\ declared[k].name = "transient_begin_" \o ToString(j - 1)
                       /\ declared[k].b = supplied_cps[j]["prior_sigma_begin_transient"]

-----------------------------------------------------------------------------
(* C8 *)

ExpectedNames(n) ==
    {"I_begin", "mu", "delay", "sigma_obs", "obs", "lambda_t", "new_cases"}
      \cup {"lambda_" \o ToString(j) : j \in 0..n}
      \cup {"transient_begin_" \o ToString(j) : j \in 0..(n - 1)}
      \cup {"transient_len_" \o ToString(j) : j \in 0..(n - 1)}

\* C8: the second of two calls with the same argument objects ends as the first
\* did: the same error kind, or a model with the same variable names and count,
\* namely the 3n + 8 distinct names of a model with n change points.
C8_SecondCallSameOutcome ==
    (call = 2 /\ Finished) =>
        /\ err = first.err
        /\ returned = first.returned
        /\ Names(declared) = first.names
        /\ Len(declared) = first.count
        /\ returned =>
              /\ Names(declared) = ExpectedNames(NumCP)
              /\ Len(declared) = 3 * NumCP + 8
              /\ Cardinality(Names(declared)) = Len(declared)

\* the second call returned a model from mappings the first call had filled
C8_Witness ==
    /\ call = 2
    /\ returned
    /\ NumCP = 2
    /\ ~priors_is_None
    /\ DOMAIN supplied_priors # DOMAIN caller_dic
    /\ DOMAIN supplied_cps[1] # DOMAIN change_points_list[1]

-----------------------------------------------------------------------------
(* C9 *)

\* C9: once key validation has passed, priors_dic holds exactly the eight
\* recognized keys and every change-point mapping exactly the six; supplied
\* keys keep the caller's value and omitted keys hold the fixed default, which
\* for a change point does not depend on the caller's priors_dic.
C9_FilledWithDefaults ==
    PastKeyValidation =>
        /\ DOMAIN priors_dic = PriorNames
        /\ \A k \in PriorNames : priors_dic[k] = EffectivePrior(k)
        /\ Len(change_points_list) = NumCP
        /\ \A j \in 1..NumCP :
              /\ DOMAIN change_points_list[j] = ChangePointNames
              /\ \A k \in ChangePointNames :
                    IF k \in DOMAIN supplied_cps[j]
                    THEN change_points_list[j][k] = supplied_cps[j][k]
                    ELSE k # DateName =>
                            change_points_list[j][k] = StatedChangePointDefault(k)

\* the caller set prior_median_λ_0 and one of two mappings set prior_median_λ
C9_Witness ==
    /\ PastKeyValidation
    /\ "prior_median_lambda_0" \in DOMAIN supplied_priors
    /\ priors_dic["prior_median_lambda_0"] # 400
    /\ NumCP = 2
    /\ "prior_median_lambda" \in DOMAIN supplied_cps[1]
    /\ "prior_median_lambda" \notin DOMAIN supplied_cps[2]
    /\ change_points_list[2]["prior_median_lambda"] = 400

-----------------------------------------------------------------------------
(* C10 *)

ObsVars == {declared[k] : k \in {k \in 1..Len(declared) : declared[k].name = "obs"}}

\* C10: the horizon error is raised exactly when num_days_sim is below
\* len(new_cases_obs) + diff_data_sim; on every build past that check the
\* series asked of the delay convolution, num_days_sim - diff_data_sim long, is
\* at least as long as the data, and the likelihood's mean has exactly as many
\* entries as new_cases_obs.
C10_LikelihoodCoversData ==
    /\ err = "HorizonTooShort" => num_days_sim < new_cases_len + diff_data_sim
    /\ PastHorizonCheck => num_days_sim >= new_cases_len + diff_data_sim
    /\ (KeysRecognized /\ DiffMillionths >= StatedDelayBound /\ Finished
          /\ num_days_sim < new_cases_len + diff_data_sim) => err = "HorizonTooShort"
    /\ pc \in {"return", "returned"} =>
          /\ new_cases_inferred_len = num_days_sim - diff_data_sim
          /\ new_cases_inferred_len >= new_cases_len
          /\ ObsVars # {}
          /\ \A v \in ObsVars : v.a = new_cases_len /\ v.b = new_cases_len

\* a model whose inferred series is longer than the data and is cut to its length
C10_Witness ==
    /\ returned
    /\ new_cases_inferred_len > new_cases_len
    /\ \E v \in ObsVars : v.a = new_cases_len

====
